---- MODULE Spec2Model ----
(***************************************************************************)
(* Life Minus Work - Retirement Readiness questionnaire (src/app.py).      *)
(*                                                                         *)
(* The Streamlit script is re-executed top to bottom after every widget    *)
(* interaction; st.session_state survives between runs.  One action of     *)
(* this model is one such run: the widget change that triggered it, the    *)
(* button handler it executes and the "full report" block at its end.      *)
(*                                                                         *)
(* Text is modelled as a sequence of one-character strings so that strip,  *)
(* lower, "in" and slicing are computed rather than assumed.               *)
(***************************************************************************)
EXTENDS Integers, Sequences, FiniteSets, TLC

VARIABLES
    email,       \* st.text_input("Your email")                    (line 581)
    v,           \* st.text_input("Verification code", max_chars=6) (line 600)
    sent_code,   \* st.session_state.sent_code                     (line 582)
    verified,    \* st.session_state.verified                      (line 583)
    has_openai,  \* _HAS_OPENAI, fixed when the process starts     (line 38-46)
    answers,     \* st.session_state.answers                       (line 542-548)
    scores,      \* scores of the last run                         (line 550)
    total,       \* total of the last run                          (line 550)
    top3,        \* top3 of the last run                           (line 555)
    mini,        \* themes named in the mini report's headline     (line 565)
    moves,       \* slider changes made so far in the session
    mail,        \* calls the last run made to the mail port, in order
    sheet,       \* rows the last run appended to the lead sheet, in order
    status,      \* st.success / st.error shown by the last run
    ran,         \* what the full-report block of the last run executed
    fallback,    \* what rule_based_full_report returned in the last run
    code_mail,   \* history: the last send_verification_code call of the session
    verify_ok,   \* history: some run of the session showed "Verified!"
    pc,          \* "run": a session; "input" / "done": a function applied to an input
    first_name,  \* st.text_input("Your first name ...")            (line 539)
    user_words,  \* st.text_area("In your own words ...")           (line 540)
    resp,        \* what the text-generation service answers       (line 66-67)
    data,        \* the record handed to normalize_report           (line 485)
    norm,        \* the record normalize_report returned            (line 485)
    email_sender,        \* EMAIL_SENDER, fixed when the process starts        (line 31)
    email_app_password,  \* EMAIL_APP_PASSWORD, fixed when the process starts  (line 32)
    msg,         \* the message handed to _smtp_send               (line 112)
    smtp_pc,     \* where the call of _smtp_send stands            (line 112-123)
    attempts,    \* the transports _smtp_send has tried, in order  (line 116, 121)
    item,        \* the item handed to _write_if_then              (line 417)
    out,         \* what _write_if_then wrote to the page          (line 427-442)
    chart_ok,    \* _scores_chart_png returned a file that exists  (line 504-505)
    pdf          \* what build_pdf wrote to the document, in order (line 489-531)

\* the questionnaire and what every run derives from it
scoreVars == <<answers, scores, total, top3, mini, moves>>

\* the verification gate, the two ports and the full-report block
gateVars == <<email, v, sent_code, verified, has_openai, mail, sheet, status, ran,
              fallback, code_mail, verify_ok>>

\* what the report is written from
inputVars == <<first_name, user_words, resp>>

\* the report content on its way into the PDF
reportVars == <<inputVars, data, norm>>

\* one call of _smtp_send
mailVars == <<email_sender, email_app_password, msg, smtp_pc, attempts>>

\* the PDF renderer
pdfVars == <<item, out, chart_ok, pdf>>

vars == <<scoreVars, gateVars, pc, reportVars, mailVars, pdfVars>>

(***************************************************************************)
(* Bounds of the model.                                                    *)
(***************************************************************************)
\* random.randint draws are taken among the codes 000000 .. NumCodes-1
NumCodes == 2
\* slider changes in one session
MaxMoves == 1
\* longest rating list handed to compute_scores
MaxLen == 4
\* theme scores handed to overall and to the ranking: 0 .. MaxDrawnScore, and 10
MaxDrawnScore == 3
\* keys of a record handed to normalize_report
MaxKeys == 1
\* fields of a well-formed record that differ from the base record
MaxVaried == 2

(***************************************************************************)
(* Text helpers.                                                           *)
(***************************************************************************)
Range(s) == {s[i] : i \in 1..Len(s)}

IsSpace(c) == c = " "

\* str.lstrip()
RECURSIVE LStrip(_)
LStrip(s) == IF s # <<>> /\ IsSpace(Head(s)) THEN LStrip(Tail(s)) ELSE s

\* str.rstrip()
RECURSIVE RStrip(_)
RStrip(s) ==
    IF s # <<>> /\ IsSpace(s[Len(s)]) THEN RStrip(SubSeq(s, 1, Len(s) - 1)) ELSE s

\* str.strip()
Strip(s) == RStrip(LStrip(s))

LowerChar(c) ==
    CASE c = "A" -> "a"
      [] c = "B" -> "b"
      [] c = "E" -> "e"
      [] c = "F" -> "f"
      [] c = "H" -> "h"
      [] c = "I" -> "i"
      [] c = "N" -> "n"
      [] c = "T" -> "t"
      [] c = "X" -> "x"
      [] OTHER -> c

\* str.lower()
Lower(s) == [i \in 1..Len(s) |-> LowerChar(s[i])]

DigitChars == <<"0", "1", "2", "3", "4", "5", "6", "7", "8", "9">>

\* str(d) for a digit d
DigitStr(d) == DigitChars[d + 1]

CODE_LEN == 6

MAX_CHARS == 6

RECURSIVE Pow10(_)
Pow10(n) == IF n = 0 THEN 1 ELSE 10 * Pow10(n - 1)

\* "".join(str(random.randint(0,9)) for _ in range(6)) when the six draws are
\* the decimal digits of n
CodeOfDraws(n) ==
    [i \in 1..CODE_LEN |-> DigitStr((n \div Pow10(CODE_LEN - i)) % 10)]

\* the codes the model lets random.randint produce
DrawnCodes == {CodeOfDraws(n) : n \in 0..(NumCodes - 1)}

(***************************************************************************)
(* What the user can type.                                                 *)
(***************************************************************************)
EmailInputs ==
    { <<>>,
      <<"b", "o", "b">>,
      <<" ", "A", "@", "x">>,
      <<"b", "@", "x">> }

\* what the user may try to type in the code box: nothing, a blank, every code
\* that can be drawn, one that is never drawn, and the first code padded with a
\* blank, whole and cut to six characters
TypedCodes ==
    LET cs == {CodeOfDraws(n) : n \in 0..NumCodes}
        c0 == CodeOfDraws(0)
    IN  { <<>>, <<" ">>, <<" ">> \o c0, <<" ">> \o SubSeq(c0, 1, CODE_LEN - 1) } \cup cs

\* st.text_input(..., max_chars=6) only lets strings of at most 6 characters in
CodeInputs == {x \in TypedCodes : Len(x) <= MAX_CHARS}

(***************************************************************************)
(* Questionnaire and scoring.  A Python dict is modelled as the sequence   *)
(* of its items <<key, value>> in insertion order, which is the order      *)
(* .items() and .values() iterate in.                                      *)
(***************************************************************************)
THEMES ==
    << "Purpose & Identity",
       "Social Health & Community Connection",
       "Health & Vitality",
       "Learning & Growth",
       "Adventure & Exploration",
       "Giving Back" >>

\* len(QUESTIONS[t]), the same for every theme
NUM_QUESTIONS == 4

SLIDER_MIN == 0

SLIDER_MAX == 10

SLIDER_DEFAULT == 5

RECURSIVE SumSeq(_)
SumSeq(s) == IF s = <<>> THEN 0 ELSE Head(s) + SumSeq(Tail(s))

Keys(d) == [i \in 1..Len(d) |-> d[i][1]]

Values(d) == [i \in 1..Len(d) |-> d[i][2]]

Max(a, b) == IF a >= b THEN a ELSE b

\* int(round(n / d)) for integers n >= 0 and d > 0.  Python 3 round() rounds a
\* float to the nearest integer and a tie to the even one; n / d is a tie as a
\* float exactly when 2 * (n % d) = d.
PyRound(n, d) ==
    LET q == n \div d
        r == n % d
    IN  IF 2 * r < d THEN q
        ELSE IF 2 * r > d THEN q + 1
        ELSE IF q % 2 = 0 THEN q ELSE q + 1

\* compute_scores with int(mean) + 1 in place of int(round(mean))
compute_scores_round_up(responses) ==
    [i \in 1..Len(responses) |->
        LET t == responses[i][1]
            vals == responses[i][2]
        IN  <<t, IF vals # <<>> THEN (SumSeq(vals) \div Len(vals)) + 1 ELSE 0>>]

compute_scores(responses) ==
    [i \in 1..Len(responses) |->
        LET t == responses[i][1]
            vals == responses[i][2]
        IN  <<t, IF vals # <<>> THEN PyRound(SumSeq(vals), Len(vals)) ELSE 0>>]

overall(sc) == PyRound(SumSeq(Values(sc)), Max(1, Len(sc)))

LABELS(t) ==
    CASE t = "Purpose & Identity" -> "Identity"
      [] t = "Social Health & Community Connection" -> "Connection"
      [] t = "Health & Vitality" -> "Vitality"
      [] t = "Learning & Growth" -> "Growth"
      [] t = "Adventure & Exploration" -> "Adventure"
      [] t = "Giving Back" -> "Contribution"
      [] OTHER -> t

Min(a, b) == IF a <= b THEN a ELSE b

\* sorted(items, key=lambda kv: kv[1])[::-1]: ties come out in reverse order
RECURSIVE sorted_asc_reversed(_)
sorted_asc_reversed(items) ==
    IF items = <<>> THEN <<>>
    ELSE LET rest == sorted_asc_reversed(SubSeq(items, 1, Len(items) - 1))
             x == items[Len(items)]
             p == Cardinality({j \in 1..Len(rest) : rest[j][2] > x[2]})
         IN  SubSeq(rest, 1, p) \o <<x>> \o SubSeq(rest, p + 1, Len(rest))

\* sorted(items, key=lambda kv: kv[1], reverse=True).  sorted() is stable and
\* reverse=True keeps the original order of items with equal keys, so each item
\* goes behind every item whose score is at least its own.
RECURSIVE sorted_desc(_)
sorted_desc(items) ==
    IF items = <<>> THEN <<>>
    ELSE LET rest == sorted_desc(SubSeq(items, 1, Len(items) - 1))
             x == items[Len(items)]
             p == Cardinality({j \in 1..Len(rest) : rest[j][2] >= x[2]})
         IN  SubSeq(rest, 1, p) \o <<x>> \o SubSeq(rest, p + 1, Len(rest))

\* [k for k,_ in sorted(...)[:n]]
top_n(sc, n) == Keys(SubSeq(sorted_desc(sc), 1, Min(n, Len(sc))))

\* lines 231-235: the themes build_mini_copy names in its headline
build_mini_copy(sc) ==
    LET top == top_n(sc, 3) IN [i \in 1..Len(top) |-> LABELS(top[i])]

\* sorted(items, key=lambda kv: kv[1]): stable, ascending
RECURSIVE sorted_asc(_)
sorted_asc(items) ==
    IF items = <<>> THEN <<>>
    ELSE LET rest == sorted_asc(SubSeq(items, 1, Len(items) - 1))
             x == items[Len(items)]
             p == Cardinality({j \in 1..Len(rest) : rest[j][2] <= x[2]})
         IN  SubSeq(rest, 1, p) \o <<x>> \o SubSeq(rest, p + 1, Len(rest))

\* [LABELS.get(k,k) for k,_ in items[:n]]
label_names(items, n) ==
    [i \in 1..Min(n, Len(items)) |-> LABELS(items[i][1])]

(***************************************************************************)
(* Report content.  A Python value is a record [t, x]: its type and its    *)
(* content as a sequence of items [k, n, s], so that values of different   *)
(* types can be told apart by t:                                           *)
(*   None                x = <<>>                                          *)
(*   str                 x = <<[k |-> "str", n |-> 0, s |-> the text]>>    *)
(*   int                 x = <<[k |-> "int", n |-> the number, s |-> ""]>> *)
(*   float               x = <<[k |-> "float", n |-> tenths, s |-> ""]>>   *)
(*   list, tuple         one item per element: k its type, s its content   *)
(*   dict (snapshot)     one item per entry: k the key, n the number (in   *)
(*                       tenths for a float), s the value's type           *)
(***************************************************************************)
Item(k, n, s) == [k |-> k, n |-> n, s |-> s]

PyNone == [t |-> "none", x |-> <<>>]

PyStr(s) == [t |-> "str", x |-> <<Item("str", 0, s)>>]

PyInt(n) == [t |-> "int", x |-> <<Item("int", n, "")>>]

PyFloat(tenths) == [t |-> "float", x |-> <<Item("float", tenths, "")>>]

PyList(items) == [t |-> "list", x |-> items]

PyTuple(items) == [t |-> "tuple", x |-> items]

PyDict(items) == [t |-> "dict", x |-> items]

\* ', '.join(names)
RECURSIVE JoinComma(_)
JoinComma(names) ==
    IF names = <<>> THEN ""
    ELSE IF Len(names) = 1 THEN names[1]
    ELSE names[1] \o ", " \o JoinComma(Tail(names))

\* OrElse that hands on an empty text
OrElseKeepsEmpty(text, other) == text

\* text or other, for strings: other when text is empty
OrElse(text, other) == IF text # "" THEN text ELSE other

\* a list of strings
StrList(texts) == PyList([i \in 1..Len(texts) |-> Item("str", 0, texts[i])])

\* a list of dicts, each written as a text naming its entries (the plan texts
\* of signature_week are left out)
DictList(texts) == PyList([i \in 1..Len(texts) |-> Item("dict", 0, texts[i])])

\* lines 263-324: the dict rule_based_full_report returns, its items in the
\* order of the literal.  Texts are written in ASCII: "-" stands for the dashes
\* U+2014 and U+2013, "'" for U+2019 and "x" for U+00D7.
FallbackContent(fname, sc, uwords, top_names, low_names) ==
    << <<"archetype", PyStr("Grounded Pathfinder")>>,
       <<"core_need", PyStr("Clarity of identity beyond work and steady weekly anchors.")>>,
       <<"signature_metaphor",
         PyStr("A lighthouse on a protected shore: steady, visible, guiding without haste.")>>,
       <<"signature_sentence",
         PyStr("I choose a calm, clear rhythm after work, anchored by " \o top_names[1]
               \o " and " \o top_names[2] \o ".")>>,
       <<"top_themes", StrList(top_names)>>,
       <<"theme_snapshot",
         PyDict([i \in 1..Len(sc) |-> Item(LABELS(sc[i][1]), sc[i][2], "int")])>>,
       <<"from_your_words", PyStr(OrElse(uwords, "-"))>>,
       <<"what_this_says",
         PyStr("Strong " \o JoinComma(top_names) \o " form a stable base. "
               \o "Gently lift " \o JoinComma(low_names)
               \o " with low-risk experiments to round out readiness.")>>,
       <<"insights",
         PyStr("Use identity as anchor, connection for accountability, and vitality to power consistent small moves.")>>,
       <<"why_now",
         PyStr("Transitions stick when started early and practiced in small cycles you can keep.")>>,
       <<"future_snapshot",
         PyStr("Hi " \o OrElse(fname, "there")
               \o " - a month from now you have one weekly social anchor, "
               \o "a learning block you enjoy, and a small way you contribute that feels useful.")>>,
       <<"signature_strengths",
         StrList(<<"Reliability", "Discernment", "Boundary sense", "Follow-through">>)>>,
       <<"energizers",
         StrList(<<"Meaningful 1:1 connections", "Short focused sessions",
                   "Clear weekly anchors">>)>>,
       <<"drainers",
         StrList(<<"Vague commitments", "Overscheduling", "Low-meaning social time">>)>>,
       <<"hidden_tensions",
         StrList(<<"Freedom vs structure", "Helping vs overcommitting", "Comfort vs growth">>)>>,
       <<"watchout", PyStr("Don't let calm become avoidance of tiny useful risks.")>>,
       <<"actions",
         StrList(<<"Pick two weekly anchors: one social, one learning.",
                   "Choose one micro-contribution (30-60 min).",
                   "Name two identities to strengthen; schedule one small rep.">>)>>,
       <<"if_then",
         StrList(<<"If a request feels fuzzy, then ask for a clear why/when before yes.",
                   "If energy dips, then shorten the session and finish with a visible win.",
                   "If you skip a day, then restart with your smallest anchor next morning.">>)>>,
       <<"one_week_plan",
         StrList(<<"Day 1: Draft your ideal post-work day; pick anchors.",
                   "Day 2: Schedule the first anchor; invite one person.",
                   "Day 3: Add a 30-minute learning block.",
                   "Day 4: Do a micro-contribution; note how it felt.",
                   "Day 5: Light exploration (new place/group) for 30 minutes.",
                   "Day 6: Review energy; tweak anchors.",
                   "Day 7: Celebrate a small win; set next week.">>)>>,
       <<"balancing_opportunity",
         PyStr("Lift " \o JoinComma(low_names)
               \o " with tiny, low-cost experiments aligned to your values.")>>,
       <<"keep_in_view",
         StrList(<<"One-sentence mission", "Top 3 values", "Morning ritual", "One true yes",
                   "Boundary checklist", "Weekly review">>)>>,
       <<"signature_week",
         DictList(<<"day: Monday, focus: Health + Connection",
                    "day: Tuesday, focus: Learning",
                    "day: Wednesday, focus: Purpose Project",
                    "day: Thursday, focus: Social",
                    "day: Friday, focus: Restorative",
                    "day: Saturday, focus: Adventure",
                    "day: Sunday, focus: Reflection & Planning">>)>>,
       <<"tiny_progress_tracker",
         DictList(<<"metric: Minutes of movement per day, target: 20-40",
                    "metric: Social touchpoints per week, target: 2",
                    "metric: Learning sessions per week, target: 3 x 30 minutes",
                    "metric: Micro-adventures per month, target: 1",
                    "metric: Daily mood rating, target: 1-5 (note one quick reason)",
                    "metric: One purposeful accomplishment per week, target: 1">>)>> >>

\* lines 258-324.  top_names[0] and top_names[1] on line 267 raise IndexError
\* when the ScoreSet has fewer than two themes; tot is not used by the function.
rule_based_full_report(fname, sc, tot, uwords) ==
    LET top_names == label_names(sorted_desc(sc), 3)
        low_names == label_names(sorted_asc(sc), 2)
    IN  IF Len(top_names) < 2
        THEN [raised |-> TRUE, top_names |-> top_names, low_names |-> low_names,
              content |-> <<>>]
        ELSE [raised |-> FALSE, top_names |-> top_names, low_names |-> low_names,
              content |-> FallbackContent(fname, sc, uwords, top_names, low_names)]

\* rule_based_full_report was not called
NoReport == [raised |-> FALSE, top_names |-> <<>>, low_names |-> <<>>, content |-> <<>>]

\* {t: [5] * len(QUESTIONS[t]) for t in THEMES}
InitialAnswers ==
    [i \in 1..Len(THEMES) |->
        <<THEMES[i], [q \in 1..NUM_QUESTIONS |-> SLIDER_DEFAULT]>>]

(***************************************************************************)
(* The verification gate and the full-report block.                        *)
(***************************************************************************)
\* one call of send_verification_code / send_pdf, with whether _smtp_send
\* returned (TRUE) or raised (FALSE)
MailCall(fn, to, code, ok) == [fn |-> fn, to |-> to, code |-> code, ok |-> ok]

\* no call yet
NoCall == MailCall("", <<>>, <<>>, FALSE)

\* the row log_email_capture appends (first name, timestamp and note left out)
SheetRow(e, sc, tot, source) ==
    [email |-> Lower(Strip(e)), scores |-> sc, overall |-> tot, source |-> source]

\* lines 99-109: log_email_capture appends the row, or (no worksheet, or the
\* append raises and is swallowed) appends nothing
log_email_capture(e, sc, tot, source, sheet_ok) ==
    IF sheet_ok THEN <<SheetRow(e, sc, tot, source)>> ELSE <<>>

\* ReportSteps without the test of session_state.verified
ReportStepsUngated(ver, ai_ok) ==
    (IF has_openai THEN {"ai_full_report"} ELSE {})
    \cup (IF has_openai /\ ai_ok THEN {} ELSE {"rule_based_full_report"})
    \cup {"build_pdf", "download_button", "email_pdf_button"}

\* lines 610-616: the steps the full-report block executes in a run that ends
\* with session_state.verified = ver; ai_ok: ai_json returned a non-empty dict
ReportSteps(ver, ai_ok) ==
    IF ~ver THEN {}
    ELSE (IF has_openai THEN {"ai_full_report"} ELSE {})
         \cup (IF has_openai /\ ai_ok THEN {} ELSE {"rule_based_full_report"})
         \cup {"build_pdf", "download_button", "email_pdf_button"}

\* lines 612-613: the fallback content, when the block asks for it
FallbackOf(steps, sc, tot) ==
    IF "rule_based_full_report" \in steps
    THEN rule_based_full_report(first_name, sc, tot, user_words)
    ELSE NoReport

\* lines 550-565, executed by every run
Recompute ==
    /\ scores' = compute_scores(answers')
    /\ total' = overall(scores')
    /\ top3' = top_n(scores', 3)
    /\ mini' = build_mini_copy(scores')

\* the keys of defaults, in the order the dict literal gives them (lines 345-353)
FIELDS ==
    << "archetype", "core_need", "signature_metaphor", "signature_sentence",
       "top_themes", "theme_snapshot",
       "from_your_words", "what_this_says",
       "insights", "why_now", "future_snapshot",
       "signature_strengths", "energizers", "drainers", "hidden_tensions",
       "watchout", "actions", "if_then", "one_week_plan",
       "balancing_opportunity", "keep_in_view", "signature_week",
       "tiny_progress_tracker" >>

\* lines 357-358
LIST_FIELDS ==
    { "top_themes", "signature_strengths", "energizers", "drainers", "hidden_tensions",
      "actions", "if_then", "one_week_plan", "keep_in_view", "signature_week",
      "tiny_progress_tracker" }

\* lines 364-366
SCALAR_FIELDS ==
    { "archetype", "core_need", "signature_metaphor", "signature_sentence",
      "from_your_words", "what_this_says", "insights", "why_now", "future_snapshot",
      "watchout", "balancing_opportunity" }

\* defaults[k] (lines 345-353)
DefaultOf(k) ==
    IF k \in LIST_FIELDS THEN PyList(<<>>)
    ELSE IF k = "theme_snapshot" THEN PyDict(<<>>)
    ELSE PyStr("")

\* the two values of the right type the model gives field k: number 1 is the
\* empty one, number 2 a filled one
WellTyped(k, nr) ==
    IF k \in LIST_FIELDS
    THEN IF nr = 1 THEN PyList(<<>>)
         ELSE PyList(<<Item("str", 0, "one"), Item("dict", 0, "day/focus/plan")>>)
    ELSE IF k = "theme_snapshot"
    THEN IF nr = 1 THEN PyDict(<<>>)
         ELSE PyDict(<<Item("Identity", 7, "int"), Item("Growth", 0, "int")>>)
    ELSE IF nr = 1 THEN PyStr("") ELSE PyStr("text")

\* the other one of the two values
Other(nr) == 3 - nr

\* the argument of normalize_report: a dict (its items <<key, value>> in order)
\* or, with t # "dict", something json.loads returned that is no dict
DictData(items) == [t |-> "dict", items |-> items]

NonDictData == [t |-> "list", items |-> <<>>]

\* no record was handed to normalize_report
NoData == DictData(<<>>)

HasKey(d, k) == \E i \in 1..Len(d) : d[i][1] = k

Lookup(d, k) == d[CHOOSE i \in 1..Len(d) : d[i][1] = k][2]

\* lines 354-355: defaults.copy(), then update with the keys of data it knows
UpdatedDefaults(d, k) ==
    IF d.t = "dict" /\ HasKey(d.items, k) THEN Lookup(d.items, k) ELSE DefaultOf(k)

\* NormalizeList that turns every item of a list into its text
NormalizeListStringifies(val) ==
    IF val.t = "str" THEN PyList(<<Item("str", 0, val.x[1].s)>>)
    ELSE IF val.t \in {"list", "tuple"}
         THEN PyList([i \in 1..Len(val.x) |-> Item("str", 0, val.x[i].s)])
    ELSE PyList(<<>>)

\* lines 359-362
NormalizeList(val) ==
    IF val.t = "str" THEN PyList(<<Item("str", 0, val.x[1].s)>>)
    ELSE IF val.t \in {"list", "tuple"} THEN PyList(val.x)
    ELSE PyList(<<>>)

\* NormalizeList that empties every value that is no list
NormalizeListOrEmpty(val) ==
    IF val.t \in {"list", "tuple"} THEN PyList(val.x) ELSE PyList(<<>>)

\* line 367
NormalizeScalar(val) == IF val.t = "none" THEN PyStr("") ELSE val

\* NormalizeScalar that empties every value that is no string
NormalizeScalarOrEmpty(val) == IF val.t = "str" THEN val ELSE PyStr("")

\* line 371: int(v) if isinstance(v, (int, float)) else v, for one entry
SnapshotEntry(it) ==
    IF it.s = "int" THEN it
    ELSE IF it.s = "float" THEN Item(it.k, it.n \div 10, "int")
    ELSE it

\* lines 369-371
NormalizeSnapshot(val) ==
    IF val.t # "dict" THEN PyDict(<<>>)
    ELSE PyDict([i \in 1..Len(val.x) |-> SnapshotEntry(val.x[i])])

\* normalize_report that empties every value of the wrong type
normalize_report_strict(d) ==
    [i \in 1..Len(FIELDS) |->
        LET k == FIELDS[i]
            val == UpdatedDefaults(d, k)
        IN  <<k, IF k \in LIST_FIELDS THEN NormalizeListOrEmpty(val)
                 ELSE IF k \in SCALAR_FIELDS THEN NormalizeScalarOrEmpty(val)
                 ELSE NormalizeSnapshot(val)>>]

\* lines 344-372
normalize_report(d) ==
    [i \in 1..Len(FIELDS) |->
        LET k == FIELDS[i]
            val == UpdatedDefaults(d, k)
        IN  <<k, IF k \in LIST_FIELDS THEN NormalizeList(val)
                 ELSE IF k \in SCALAR_FIELDS THEN NormalizeScalar(val)
                 ELSE NormalizeSnapshot(val)>>]

(***************************************************************************)
(* The text-generation call.  The text of an answer is a sequence of       *)
(* tokens:                                                                 *)
(*   "{" and "}"     the braces                                            *)
(*   "prose"         a run of characters that holds no brace and is not    *)
(*                   JSON                                                  *)
(*   "null", "7"     the JSON literals                                     *)
(*   a key k         the member "k": value of an object, value of the type *)
(*                   the schema gives k                                    *)
(***************************************************************************)
\* what the service answered: ok is FALSE when responses.create raised; text
\* is what _parse_response_text returned; kind records how the answer was made
Response(ok, text, kind) == [ok |-> ok, text |-> text, kind |-> kind]

\* the service was not called
NoResponse == Response(FALSE, <<>>, "none")

\* the keys a record may carry: the expected ones and one that is not
InputKeys == FIELDS \o <<"unexpected">>

\* text.find(tok) for a token the text holds
FirstIndex(text, tok) ==
    CHOOSE i \in 1..Len(text) : text[i] = tok /\ \A j \in 1..(i - 1) : text[j] # tok

\* text.rfind(tok) for a token the text holds
LastIndex(text, tok) ==
    CHOOSE i \in 1..Len(text) : text[i] = tok /\ \A j \in (i + 1)..Len(text) : text[j] # tok

\* lines 69-70: text[text.find("{"):text.rfind("}")+1] when both braces occur
JsonSlice(text) ==
    IF "{" \in Range(text) /\ "}" \in Range(text)
    THEN SubSeq(text, FirstIndex(text, "{"), LastIndex(text, "}"))
    ELSE text

\* the text is one JSON object: braces around members only
IsObjectText(text) ==
    /\ Len(text) >= 2
    /\ text[1] = "{"
    /\ text[Len(text)] = "}"
    /\ \A i \in 2..(Len(text) - 1) : text[i] \in Range(InputKeys)

\* the dict of an object's members: one item per key, where it first occurs
ObjectItems(ks) ==
    LET first == {i \in 1..Len(ks) : \A j \in 1..(i - 1) : ks[j] # ks[i]}
        nth(n) == CHOOSE i \in first : Cardinality({j \in first : j < i}) = n - 1
    IN  [n \in 1..Cardinality(first) |-> <<ks[nth(n)], WellTyped(ks[nth(n)], 2)>>]

\* line 71: json.loads(text); raised when the text is not JSON
JsonLoads(text) ==
    IF IsObjectText(text)
    THEN [raised |-> FALSE, value |-> DictData(ObjectItems(SubSeq(text, 2, Len(text) - 1)))]
    ELSE IF text = <<"null">>
    THEN [raised |-> FALSE, value |-> [t |-> "none", items |-> <<>>]]
    ELSE IF text = <<"7">>
    THEN [raised |-> FALSE, value |-> [t |-> "int", items |-> <<>>]]
    ELSE [raised |-> TRUE, value |-> NoData]

\* lines 63-73
ai_json(r) ==
    IF ~has_openai THEN NoData
    ELSE IF ~r.ok THEN NoData
    ELSE IF r.text = <<>> THEN NoData
    ELSE LET loaded == JsonLoads(JsonSlice(r.text))
         IN  IF loaded.raised THEN NoData ELSE loaded.value

\* lines 240-256: the prompt is built and handed to ai_json
ai_full_report(r) == ai_json(r)

\* bool(ai_data) of line 612: None, {} and [] are false, 7 and a dict with an
\* item are true
Truthy(d) ==
    CASE d.t = "dict" -> d.items # <<>>
      [] d.t = "int" -> TRUE
      [] OTHER -> FALSE

\* lines 582-583: the gate of a session that has pressed nothing yet
InitGate ==
    /\ email = <<>>
    /\ v = <<>>
    /\ sent_code = <<>>
    /\ verified = FALSE
    /\ mail = <<>>
    /\ sheet = <<>>
    /\ status = ""
    /\ ran = {}
    /\ fallback = NoReport
    /\ code_mail = NoCall
    /\ verify_ok = FALSE

\* an if/then item: a text (its characters), a dict (its items <<key, text>>
\* in order) or None
IfThenStr(chars) == [t |-> "str", s |-> chars, d |-> <<>>]

IfThenDict(items) == [t |-> "dict", s |-> <<>>, d |-> items]

NoItem == [t |-> "none", s |-> <<>>, d |-> <<>>]

\* a message: the function that built it and its To header
Message(fn, to) == [fn |-> fn, to |-> to]

\* lines 31-32 with both secrets set, and no call of _smtp_send under way
InitMail ==
    /\ email_sender = "sender@gmail.com"
    /\ email_app_password = "app-password"
    /\ msg = Message("", <<>>)
    /\ smtp_pc = "idle"
    /\ attempts = <<>>

\* nothing handed to the PDF renderer yet
InitPdf ==
    /\ item = NoItem
    /\ out = <<>>
    /\ chart_ok = FALSE
    /\ pdf = <<>>

\* lines 539-540 before the user types anything, and no answer of the
\* text-generation service
InitInputs ==
    /\ first_name = ""
    /\ user_words = ""
    /\ resp = NoResponse

\* no report content has been built yet
InitReport ==
    /\ InitInputs
    /\ data = NoData
    /\ norm = <<>>
    /\ InitMail
    /\ InitPdf

\* lines 550-565 for the rating set a
FirstRun(a) ==
    /\ answers = a
    /\ scores = compute_scores(a)
    /\ total = overall(compute_scores(a))
    /\ top3 = top_n(compute_scores(a), 3)
    /\ mini = build_mini_copy(compute_scores(a))
    /\ moves = 0

\* lines 542-543 and 582-583, and the first run of the script
Init ==
    /\ InitGate
    /\ InitReport
    /\ has_openai \in BOOLEAN
    /\ FirstRun(InitialAnswers)
    /\ pc = "run"

\* the user edits the email box; the run presses no button
EditEmail ==
    \E e \in EmailInputs, ai_ok \in BOOLEAN :
        /\ e # email
        /\ email' = e
        /\ UNCHANGED answers
        /\ Recompute
        /\ mail' = <<>>
        /\ sheet' = <<>>
        /\ status' = ""
        /\ ran' = ReportSteps(verified, ai_ok)
        /\ fallback' = FallbackOf(ran', scores', total')
        /\ UNCHANGED <<moves, pc, reportVars>>
        /\ UNCHANGED <<v, sent_code, verified, has_openai, code_mail, verify_ok>>
        /\ UNCHANGED <<mailVars, pdfVars>>

\* the user edits the code box; the run presses no button
EditCode ==
    \E x \in CodeInputs, ai_ok \in BOOLEAN :
        /\ x # v
        /\ v' = x
        /\ UNCHANGED answers
        /\ Recompute
        /\ mail' = <<>>
        /\ sheet' = <<>>
        /\ status' = ""
        /\ ran' = ReportSteps(verified, ai_ok)
        /\ fallback' = FallbackOf(ran', scores', total')
        /\ UNCHANGED <<moves, pc, reportVars>>
        /\ UNCHANGED <<email, sent_code, verified, has_openai, code_mail, verify_ok>>
        /\ UNCHANGED <<mailVars, pdfVars>>

\* line 589: the email is refused
SendCodeInvalid ==
    /\ status' = "error: Please enter a valid email."
    /\ mail' = <<>>
    /\ sheet' = <<>>
    /\ UNCHANGED <<sent_code, code_mail>>

\* SendCodeValid with the code stored only after the mail went out
SendCodeValidStoresOnSuccess(e, code, smtp_ok, sheet_ok) ==
    /\ sent_code' = IF smtp_ok THEN code ELSE sent_code
    /\ mail' = <<MailCall("send_verification_code", e, code, smtp_ok)>>
    /\ code_mail' = MailCall("send_verification_code", e, code, smtp_ok)
    /\ IF smtp_ok
       THEN /\ sheet' = log_email_capture(e, scores', total', "request-code", sheet_ok)
            /\ status' = "success: We've emailed a code."
       ELSE /\ sheet' = <<>>
            /\ status' = "error: Could not send email"

\* lines 591-598: the code is stored, then mailed; the lead is logged only if
\* the mail went out
SendCodeValid(e, code, smtp_ok, sheet_ok) ==
    /\ sent_code' = code
    /\ mail' = <<MailCall("send_verification_code", e, code, smtp_ok)>>
    /\ code_mail' = MailCall("send_verification_code", e, code, smtp_ok)
    /\ IF smtp_ok
       THEN /\ sheet' = log_email_capture(e, scores', total', "request-code", sheet_ok)
            /\ status' = "success: We've emailed a code."
       ELSE /\ sheet' = <<>>
            /\ status' = "error: Could not send email"

\* lines 587-598: "Email me a 6-digit code"
ClickSendCode ==
    \E code \in DrawnCodes, smtp_ok \in BOOLEAN, sheet_ok \in BOOLEAN, ai_ok \in BOOLEAN :
        LET e == Strip(email) IN
        /\ UNCHANGED answers
        /\ Recompute
        /\ IF e = <<>> \/ "@" \notin Range(e)
           THEN SendCodeInvalid
           ELSE SendCodeValid(e, code, smtp_ok, sheet_ok)
        /\ ran' = ReportSteps(verified, ai_ok)
        /\ fallback' = FallbackOf(ran', scores', total')
        /\ UNCHANGED <<moves, pc, reportVars>>
        /\ UNCHANGED <<email, v, verified, has_openai, verify_ok>>
        /\ UNCHANGED <<mailVars, pdfVars>>

\* lines 603-605: the code matches
VerifyMatch(sheet_ok) ==
    /\ verified' = TRUE
    /\ verify_ok' = TRUE
    /\ sheet' = log_email_capture(email, scores', total', "verify", sheet_ok)
    /\ status' = "success: Verified!"
    /\ UNCHANGED sent_code

\* VerifyMismatch that also discards the issued code
VerifyMismatchForgetsCode ==
    /\ status' = "error: That code doesn't match."
    /\ sheet' = <<>>
    /\ sent_code' = <<>>
    /\ UNCHANGED <<verified, verify_ok>>

\* lines 606-607: the code does not match
VerifyMismatch ==
    /\ status' = "error: That code doesn't match."
    /\ sheet' = <<>>
    /\ UNCHANGED <<verified, verify_ok, sent_code>>

\* lines 600-607: "Verify"
ClickVerify ==
    \E sheet_ok \in BOOLEAN, ai_ok \in BOOLEAN :
        /\ UNCHANGED answers
        /\ Recompute
        /\ IF Strip(v) = sent_code
           THEN VerifyMatch(sheet_ok)
           ELSE VerifyMismatch
        /\ mail' = <<>>
        /\ ran' = ReportSteps(verified', ai_ok)
        /\ fallback' = FallbackOf(ran', scores', total')
        /\ UNCHANGED <<moves, pc, reportVars>>
        /\ UNCHANGED <<email, v, has_openai, code_mail>>
        /\ UNCHANGED <<mailVars, pdfVars>>

\* lines 617-622: "Email me the PDF"; the button can be pressed only if the
\* previous run rendered it, and line 617 is reached only inside the block
\* guarded by session_state.verified
ClickEmailPdf ==
    \E smtp_ok \in BOOLEAN, ai_ok \in BOOLEAN :
        /\ "email_pdf_button" \in ran
        /\ UNCHANGED answers
        /\ Recompute
        /\ ran' = ReportSteps(verified, ai_ok) \cup (IF verified THEN {"send_pdf"} ELSE {})
        /\ fallback' = FallbackOf(ran', scores', total')
        /\ UNCHANGED <<moves, pc, reportVars>>
        /\ mail' = IF verified
                   THEN <<MailCall("send_pdf", email, <<>>, smtp_ok)>>
                   ELSE <<>>
        /\ sheet' = <<>>
        /\ status' = IF ~verified THEN ""
                     ELSE IF smtp_ok THEN "success: Sent! Check your inbox."
                     ELSE "error: Could not send PDF"
        /\ UNCHANGED <<email, v, sent_code, verified, has_openai, code_mail, verify_ok>>
        /\ UNCHANGED <<mailVars, pdfVars>>

Next ==
    \/ EditEmail
    \/ EditCode
    \/ ClickSendCode
    \/ ClickVerify
    \/ ClickEmailPdf

\* one user session at the verification gate (sliders left at their defaults)
Spec == Init /\ [][Next]_vars

(***************************************************************************)
(* Claims about the verification gate, checked under Spec.                 *)
(***************************************************************************)
\* a code has been issued in this session
CodeIssued == code_mail # NoCall

\* the rows with source "verify" appended by the last run
VerifyRows == {i \in 1..Len(sheet) : sheet[i].source = "verify"}

\* the send_pdf calls made by the last run
PdfCalls == {i \in 1..Len(mail) : mail[i].fn = "send_pdf"}

\* C1: a Verify run sets the verified flag only when the submitted string is
\* exactly the most recently issued code (so a superseded code is refused).
C1_VerifyOnlyLatestCode ==
    status = "success: Verified!" => (CodeIssued /\ v = code_mail.code)

\* C2: narrative generation, build_pdf, the download button and the emailed
\* PDF occur only in runs of a session whose verified flag is set, and so only
\* after some Verify run succeeded.
C2_ReportGated ==
    (ran # {} \/ PdfCalls # {} \/ fallback # NoReport) => (verified /\ verify_ok)

C2_Witness ==
    /\ {"rule_based_full_report", "build_pdf", "download_button", "send_pdf"} \subseteq ran
    /\ fallback # NoReport
    /\ PdfCalls # {}
    /\ verified

\* C3: once a code has been issued, the email logged with source "verify" and
\* the recipient of the emailed PDF are the address the latest code was sent to.
C3_VerifiedEmailIsCodeEmail ==
    CodeIssued =>
        /\ \A i \in VerifyRows : sheet[i].email = Lower(Strip(code_mail.to))
        /\ \A i \in PdfCalls : Lower(Strip(mail[i].to)) = Lower(Strip(code_mail.to))

\* C4: a send-code run with a valid email whose mail delivery fails still makes
\* the new code the session's code, appends no lead row and changes nothing
\* else; a Verify run submitting that code then succeeds.
C4_FailedSendStillIssues ==
    /\ [][status' = "error: Could not send email" =>
            /\ Len(mail') = 1
            /\ mail'[1] = MailCall("send_verification_code", Strip(email), sent_code', FALSE)
            /\ sent_code' \in DrawnCodes
            /\ sheet' = <<>>
            /\ UNCHANGED <<email, v, verified, verify_ok, answers>>]_vars
    /\ [][(/\ CodeIssued
           /\ ~code_mail.ok
           /\ v = code_mail.code
           /\ status' \in {"success: Verified!", "error: That code doesn't match."})
          => (status' = "success: Verified!" /\ verified')]_vars

C4_Witness ==
    /\ status = "success: Verified!"
    /\ CodeIssued
    /\ ~code_mail.ok
    /\ v = code_mail.code

\* C5: a refused email and a non-matching code change no session state and
\* send and log nothing.
C5_ValidationFailureChangesNothing ==
    /\ [][status' \in {"error: Please enter a valid email.", "error: That code doesn't match."} =>
            /\ UNCHANGED <<email, v, sent_code, verified, answers, code_mail, verify_ok>>
            /\ mail' = <<>>
            /\ sheet' = <<>>]_vars
    /\ [][status' \in {"success: We've emailed a code.", "error: Could not send email"} =>
            "@" \in Range(Strip(email))]_vars
    /\ [][status' = "error: Please enter a valid email." =>
            "@" \notin Range(Strip(email))]_vars
    /\ [][status' = "error: That code doesn't match." => Strip(v) # sent_code]_vars

C5_Witness ==
    /\ status = "error: That code doesn't match."
    /\ CodeIssued
    /\ sent_code = code_mail.code
    /\ ~verified

(***************************************************************************)
(* The questionnaire: slider changes.                                      *)
(***************************************************************************)
\* the rating set after every slider has been dragged to one level
UniformAnswers(level) ==
    [i \in 1..Len(THEMES) |-> <<THEMES[i], [q \in 1..NUM_QUESTIONS |-> level]>>]

\* lines 545-548: slider q of theme number i now reads val
SetRating(a, i, q, val) ==
    [a EXCEPT ![i] = <<a[i][1], [a[i][2] EXCEPT ![q] = val]>>]

\* lines 545-565 and 610-616: the user moves one slider; the run presses no button
MoveSlider ==
    /\ moves < MaxMoves
    /\ \E i \in 1..Len(THEMES), q \in 1..NUM_QUESTIONS, val \in SLIDER_MIN..SLIDER_MAX :
          /\ val # answers[i][2][q]
          /\ answers' = SetRating(answers, i, q, val)
    /\ Recompute
    /\ moves' = moves + 1
    /\ mail' = <<>>
    /\ sheet' = <<>>
    /\ status' = ""
    /\ \E ai_ok \in BOOLEAN : ran' = ReportSteps(verified, ai_ok)
    /\ fallback' = FallbackOf(ran', scores', total')
    /\ UNCHANGED <<email, v, sent_code, verified, has_openai, code_mail, verify_ok, pc,
                 reportVars>>
    /\ UNCHANGED <<mailVars, pdfVars>>

\* a session whose sliders all stand at one level, before further slider changes
InitScores ==
    /\ InitGate
    /\ InitReport
    /\ has_openai = FALSE
    /\ \E level \in SLIDER_MIN..SLIDER_MAX : FirstRun(UniformAnswers(level))
    /\ pc = "run"

NextScores == MoveSlider

\* slider changes of one session
SpecScores == InitScores /\ [][NextScores]_vars

(***************************************************************************)
(* compute_scores applied to one theme's rating list.                      *)
(***************************************************************************)
\* the lists of n ratings
RatingLists(n) == [1..n -> SLIDER_MIN..SLIDER_MAX]

\* the responses handed to compute_scores: no theme, or one theme and its list
\* of at most MaxLen ratings
InitCompute ==
    /\ InitGate
    /\ InitReport
    /\ has_openai = FALSE
    /\ \/ answers = <<>>
       \/ \E n \in 0..MaxLen : \E l \in RatingLists(n) : answers = << <<THEMES[1], l>> >>
    /\ scores = <<>>
    /\ total = 0
    /\ top3 = <<>>
    /\ mini = <<>>
    /\ moves = 0
    /\ pc = "input"

\* line 550, first half: scores = compute_scores(answers)
ApplyComputeScores ==
    /\ pc = "input"
    /\ scores' = compute_scores(answers)
    /\ pc' = "done"
    /\ UNCHANGED <<answers, total, top3, mini, moves, gateVars, reportVars>>
    /\ UNCHANGED <<mailVars, pdfVars>>

SpecCompute == InitCompute /\ [][ApplyComputeScores]_vars

(***************************************************************************)
(* overall and the top-3 ranking applied to a ScoreSet.                    *)
(***************************************************************************)
DrawnScores == (0..MaxDrawnScore) \cup {SLIDER_MAX}

\* the ScoreSet giving the first Len(f) themes, in THEMES order, the scores f
ScoreSetOf(f) == [i \in 1..Len(f) |-> <<THEMES[i], f[i]>>]

InitScoreSet ==
    /\ InitGate
    /\ InitReport
    /\ has_openai = FALSE
    /\ answers = <<>>
    /\ \E n \in 0..Len(THEMES) : \E f \in [1..n -> DrawnScores] : scores = ScoreSetOf(f)
    /\ total = 0
    /\ top3 = <<>>
    /\ mini = <<>>
    /\ moves = 0
    /\ pc = "input"

\* lines 550-565, from total on, and lines 259-262 of the fallback report
ApplyOverallAndRanking ==
    /\ pc = "input"
    /\ total' = overall(scores)
    /\ top3' = top_n(scores, 3)
    /\ mini' = build_mini_copy(scores)
    /\ fallback' = rule_based_full_report(first_name, scores, total', user_words)
    /\ pc' = "done"
    /\ UNCHANGED <<answers, scores, moves, email, v, sent_code, verified, has_openai,
                   mail, sheet, status, ran, code_mail, verify_ok, reportVars>>
    /\ UNCHANGED <<mailVars, pdfVars>>

SpecScoreSet == InitScoreSet /\ [][ApplyOverallAndRanking]_vars

(***************************************************************************)
(* Claims about scoring and ranking.                                       *)
(***************************************************************************)
\* n / d rounded to the nearest integer, a tie rounded up
RoundHalfUp(n, d) == (2 * n + d) \div (2 * d)

\* C6: every theme's score is round-half-up of the mean of its ratings, and 0
\* for an empty rating list.
C6_ThemeScoreIsHalfUpMean ==
    pc = "done" =>
        /\ Len(scores) = Len(answers)
        /\ \A i \in 1..Len(answers) :
              scores[i][2] = IF answers[i][2] = <<>> THEN 0
                             ELSE RoundHalfUp(SumSeq(answers[i][2]), Len(answers[i][2]))

\* C7: overall is round-half-up of the mean of the theme scores, and 0 for an
\* empty ScoreSet.
C7_OverallIsHalfUpMean ==
    pc = "done" =>
        total = IF scores = <<>> THEN 0
                ELSE RoundHalfUp(SumSeq(Values(scores)), Len(scores))

\* C8: after slider changes the ScoreSet has exactly one entry per theme of the
\* RatingSet and no other, and every theme score and the overall score lie in
\* 0..10.
C8_ScoreSetShapeAndRange ==
    /\ Keys(scores) = Keys(answers)
    /\ \A i, j \in 1..Len(scores) : scores[i][1] = scores[j][1] => i = j
    /\ \A i \in 1..Len(scores) : scores[i][2] \in SLIDER_MIN..SLIDER_MAX
    /\ total \in SLIDER_MIN..SLIDER_MAX

C8_Witness ==
    /\ moves = 1
    /\ \E i \in 1..Len(scores) : scores[i][2] = 8
    /\ \E i \in 1..Len(scores) : scores[i][2] = SLIDER_MAX
    /\ total = SLIDER_MAX

\* position of theme t in the ScoreSet (its declared order)
PosIn(sc, t) == CHOOSE i \in 1..Len(sc) : sc[i][1] = t

ScoreIn(sc, t) == sc[PosIn(sc, t)][2]

\* theme a ranks before theme b: higher score, or equal score and declared first
RanksBefore(sc, a, b) ==
    \/ ScoreIn(sc, a) > ScoreIn(sc, b)
    \/ ScoreIn(sc, a) = ScoreIn(sc, b) /\ PosIn(sc, a) < PosIn(sc, b)

\* r lists the first n themes of sc by score descending, ties in declared order
IsTopRanking(sc, r, n) ==
    /\ Len(r) = Min(n, Len(sc))
    /\ \A i \in 1..Len(r) : \E k \in 1..Len(sc) : sc[k][1] = r[i]
    /\ \A i, j \in 1..Len(r) : i < j => RanksBefore(sc, r[i], r[j])
    /\ \A k \in 1..Len(sc) :
          (\A i \in 1..Len(r) : r[i] # sc[k][1]) =>
              \A i \in 1..Len(r) : RanksBefore(sc, r[i], sc[k][1])

\* C9: the top 3 of the caption, of the mini report and of the fallback report
\* list themes by score descending, equal scores in THEMES order.
C9_TopThreeRanking ==
    pc = "done" =>
        /\ IsTopRanking(scores, top3, 3)
        /\ mini = [i \in 1..Len(top3) |-> LABELS(top3[i])]
        /\ fallback.top_names = [i \in 1..Len(top3) |-> LABELS(top3[i])]

C9_Witness ==
    /\ pc = "done"
    /\ Len(scores) = Len(THEMES)
    /\ \A i \in 1..Len(scores) : scores[i][2] = IF i \in {2, 4, 5, 6} THEN 3 ELSE 1
    /\ top3 = <<THEMES[2], THEMES[4], THEMES[5]>>

(***************************************************************************)
(* normalize_report applied to a record.                                   *)
(***************************************************************************)
\* values a field may come with: every JSON type, and a tuple
SampleValues ==
    { PyNone,
      PyStr("text"),
      PyStr(""),
      PyInt(7),
      PyFloat(25),
      PyList(<<>>),
      PyList(<<Item("str", 0, "one"), Item("dict", 0, "day/focus/plan")>>),
      PyTuple(<<Item("str", 0, "one")>>),
      PyDict(<<Item("Identity", 7, "int"), Item("Growth", 25, "float"),
               Item("Vitality", 0, "none")>>) }

\* the dicts whose keys are InputKeys[j] for j in ks, in that order
RECURSIVE DictsOver(_, _)
DictsOver(ks, from) ==
    IF from > Len(InputKeys) THEN {<<>>}
    ELSE IF from \in ks
         THEN {<< <<InputKeys[from], val>> >> \o rest :
                   val \in SampleValues, rest \in DictsOver(ks, from + 1)}
         ELSE DictsOver(ks, from + 1)

InitNormalize ==
    /\ InitGate
    /\ InitInputs
    /\ InitMail
    /\ InitPdf
    /\ norm = <<>>
    /\ has_openai = FALSE
    /\ FirstRun(InitialAnswers)
    /\ pc = "input"
    /\ \/ data = NonDictData
       \/ \E ks \in SUBSET (1..Len(InputKeys)) :
             /\ Cardinality(ks) <= MaxKeys
             /\ \E items \in DictsOver(ks, 1) : data = DictData(items)

\* line 485: data = normalize_report(data)
ApplyNormalize ==
    /\ pc = "input"
    /\ norm' = normalize_report(data)
    /\ pc' = "done"
    /\ UNCHANGED <<scoreVars, gateVars, inputVars, data>>
    /\ UNCHANGED <<mailVars, pdfVars>>

SpecNormalize == InitNormalize /\ [][ApplyNormalize]_vars

(***************************************************************************)
(* Claims about normalize_report.                                          *)
(***************************************************************************)
\* the value the record handed in has for field k, None when it has none
Given(k) ==
    IF data.t = "dict" /\ HasKey(data.items, k) THEN Lookup(data.items, k) ELSE PyNone

Absent(k) == ~(data.t = "dict" /\ HasKey(data.items, k))

\* every expected field, and no other, is present, in order, and none is None
AllFieldsPresent ==
    /\ Len(norm) = Len(FIELDS)
    /\ \A i \in 1..Len(FIELDS) : norm[i][1] = FIELDS[i] /\ norm[i][2].t # "none"

WellFormedRecord(base, varied, reversed) ==
    [i \in 1..Len(FIELDS) |->
        LET j == IF reversed THEN Len(FIELDS) + 1 - i ELSE i
        IN  <<FIELDS[j], WellTyped(FIELDS[j], IF j \in varied THEN Other(base) ELSE base)>>]

InitWellFormed ==
    /\ InitGate
    /\ InitInputs
    /\ InitMail
    /\ InitPdf
    /\ norm = <<>>
    /\ has_openai = FALSE
    /\ FirstRun(InitialAnswers)
    /\ pc = "input"
    /\ \E base \in 1..2, reversed \in BOOLEAN :
          \E varied \in SUBSET (1..Len(FIELDS)) :
             /\ Cardinality(varied) <= MaxVaried
             /\ data = DictData(WellFormedRecord(base, varied, reversed))

\* line 485 for a well-formed record
ApplyNormalizeWellFormed ==
    /\ pc = "input"
    /\ norm' = normalize_report(data)
    /\ pc' = "done"
    /\ UNCHANGED <<scoreVars, gateVars, inputVars, data>>
    /\ UNCHANGED <<mailVars, pdfVars>>

SpecWellFormed == InitWellFormed /\ [][ApplyNormalizeWellFormed]_vars

\* C11: for a record with exactly the expected fields, each of its correct
\* type, normalize_report returns a record with the same fields and, field for
\* field, the same values.
C11_IdentityOnWellFormed ==
    pc = "done" =>
        /\ Len(norm) = Len(data.items)
        /\ \A i \in 1..Len(FIELDS) :
              /\ HasKey(norm, FIELDS[i])
              /\ HasKey(data.items, FIELDS[i])
              /\ Lookup(norm, FIELDS[i]) = Lookup(data.items, FIELDS[i])

C11_Witness ==
    /\ pc = "done"
    /\ data.items[1][1] = "tiny_progress_tracker"
    /\ Lookup(data.items, "signature_week") = WellTyped("signature_week", 2)
    /\ Lookup(norm, "signature_week") = WellTyped("signature_week", 2)
    /\ Lookup(data.items, "theme_snapshot") = WellTyped("theme_snapshot", 2)
    /\ Lookup(norm, "theme_snapshot") = WellTyped("theme_snapshot", 2)
    /\ Lookup(norm, "archetype") = PyStr("")

(***************************************************************************)
(* The full-report block of a verified session, for one answer of the      *)
(* text-generation service.                                                *)
(***************************************************************************)
\* prose the service may put before or after the JSON
Wrappers == {<<>>, <<"prose">>}

\* the object with the expected keys numbered in ks, in declared order
ObjectText(ks) == <<"{">> \o SelectSeq(FIELDS, LAMBDA k : \E i \in ks : FIELDS[i] = k) \o <<"}">>

\* answers that are no JSON: prose, a truncated object, braces around prose,
\* braces in the wrong order
NonJsonTexts ==
    { <<"prose">>,
      <<"prose", "{", "archetype">>,
      <<"{", "prose", "}">>,
      <<"}", "archetype", "{">> }

\* a session that was verified with the code 000000 sent to b@x
InitVerifiedGate ==
    /\ email = <<"b", "@", "x">>
    /\ v = CodeOfDraws(0)
    /\ sent_code = CodeOfDraws(0)
    /\ verified = TRUE
    /\ verify_ok = TRUE
    /\ code_mail = MailCall("send_verification_code", <<"b", "@", "x">>, CodeOfDraws(0), TRUE)
    /\ mail = <<>>
    /\ sheet = <<>>
    /\ status = ""
    /\ ran = {}
    /\ fallback = NoReport

InitAiReport ==
    /\ InitVerifiedGate
    /\ InitMail
    /\ InitPdf
    /\ has_openai \in BOOLEAN
    /\ FirstRun(InitialAnswers)
    /\ first_name = ""
    /\ user_words = ""
    /\ data = NoData
    /\ norm = <<>>
    /\ pc = "input"
    /\ \/ resp = Response(FALSE, <<>>, "transport_error")
       \/ resp = Response(TRUE, <<>>, "no_text")
       \/ \E t \in NonJsonTexts : resp = Response(TRUE, t, "non_json")
       \/ \E t \in {<<"null">>, <<"7">>} : resp = Response(TRUE, t, "not_object")
       \/ \E pre \in Wrappers, post \in Wrappers :
             \/ resp = Response(TRUE, pre \o <<"{", "}">> \o post, "empty_object")
             \/ resp = Response(TRUE, pre \o <<"{", "unexpected", "}">> \o post, "foreign")
             \/ resp = Response(TRUE, pre \o ObjectText(1..Len(FIELDS)) \o post, "full")
             \/ \E ks \in SUBSET (1..Len(FIELDS)) :
                   /\ ks # {}
                   /\ Cardinality(ks) <= MaxKeys
                   /\ resp = Response(TRUE, pre \o ObjectText(ks) \o post, "partial")

\* lines 610-614: the content is asked from the service, replaced by the
\* fallback when it is false, and handed to build_pdf, which normalizes it
ApplyFullReport ==
    /\ pc = "input"
    /\ verified
    /\ LET ai_data == IF has_openai THEN ai_full_report(resp) ELSE NoData
       IN  /\ ran' = ReportSteps(verified, Truthy(ai_data))
           /\ fallback' = FallbackOf(ran', scores, total)
           /\ data' = IF Truthy(ai_data) THEN ai_data ELSE DictData(fallback'.content)
    /\ norm' = normalize_report(data')
    /\ pc' = "done"
    /\ UNCHANGED <<scoreVars, inputVars>>
    /\ UNCHANGED <<email, v, sent_code, verified, has_openai, mail, sheet, status,
                   code_mail, verify_ok>>
    /\ UNCHANGED <<mailVars, pdfVars>>

SpecAiReport == InitAiReport /\ [][ApplyFullReport]_vars

\* C12: when the text-generation call fails in transport, answers text that is
\* no JSON, or answers an object with only part of the schema, the content
\* handed to build_pdf is the one rule_based_full_report returned.
C12_FailureUsesFallback ==
    (pc = "done" /\ has_openai /\ resp.kind \in {"transport_error", "non_json", "partial"}) =>
        /\ "rule_based_full_report" \in ran
        /\ fallback # NoReport
        /\ data = DictData(fallback.content)

(***************************************************************************)
(* rule_based_full_report applied to a ScoreSet over the six themes.       *)
(***************************************************************************)
\* the theme scores the fallback report is drawn for: lowest, one in between,
\* highest
FallbackScores == {SLIDER_MIN, MaxDrawnScore, SLIDER_MAX}

\* what the user may have typed as first name and as reflection
FirstNames == {"", "Ann"}

UserWords == {"", "more time outdoors"}

InitFallback ==
    /\ InitGate
    /\ InitMail
    /\ InitPdf
    /\ has_openai = FALSE
    /\ answers = <<>>
    /\ \E f \in [1..Len(THEMES) -> FallbackScores] :
          /\ scores = ScoreSetOf(f)
          /\ total = overall(ScoreSetOf(f))
          /\ top3 = top_n(ScoreSetOf(f), 3)
          /\ mini = build_mini_copy(ScoreSetOf(f))
    /\ moves = 0
    /\ first_name \in FirstNames
    /\ user_words \in UserWords
    /\ resp = NoResponse
    /\ data = NoData
    /\ norm = <<>>
    /\ pc = "input"

\* line 613: ai_data = rule_based_full_report(first_name, scores, total, user_words)
ApplyRuleBased ==
    /\ pc = "input"
    /\ fallback' = rule_based_full_report(first_name, scores, total, user_words)
    /\ pc' = "done"
    /\ UNCHANGED <<scoreVars, reportVars>>
    /\ UNCHANGED <<email, v, sent_code, verified, has_openai, mail, sheet, status, ran,
                   code_mail, verify_ok>>
    /\ UNCHANGED <<mailVars, pdfVars>>

SpecFallback == InitFallback /\ [][ApplyRuleBased]_vars

\* a value that is not empty: a text with a character, a list or dict with an
\* item
NonEmpty(val) ==
    CASE val.t = "str" -> val.x[1].s # ""
      [] val.t \in {"list", "tuple", "dict"} -> val.x # <<>>
      [] OTHER -> FALSE

\* C13: for every ScoreSet over the six themes and any first name and
\* reflection text, rule_based_full_report returns without error a record with
\* every expected field present and non-empty, and calls no port.
C13_FallbackIsTotal ==
    pc = "done" =>
        /\ ~fallback.raised
        /\ Len(fallback.content) = Len(FIELDS)
        /\ \A i \in 1..Len(FIELDS) :
              /\ HasKey(fallback.content, FIELDS[i])
              /\ NonEmpty(Lookup(fallback.content, FIELDS[i]))
              /\ Lookup(fallback.content, FIELDS[i]).t = DefaultOf(FIELDS[i]).t
        /\ mail = <<>>
        /\ sheet = <<>>
        /\ ran = {}
        /\ resp = NoResponse

C13_Witness ==
    /\ pc = "done"
    /\ \A i \in 1..Len(scores) : scores[i][2] = SLIDER_MIN
    /\ first_name = ""
    /\ user_words = ""
    /\ Lookup(fallback.content, "from_your_words") = PyStr("-")
    /\ Len(Lookup(fallback.content, "theme_snapshot").x) = Len(THEMES)

(***************************************************************************)
(* One call of _smtp_send, step by step.                                   *)
(***************************************************************************)
\* one use of a transport and how it ended: "ok", or the step that raised
Attempt(port, mode, outcome) == [port |-> port, mode |-> mode, outcome |-> outcome]

\* lines 116-119: the ways the with-block over smtplib.SMTP can end; leaving
\* the block sends QUIT, which can raise after the message was sent
PrimaryOutcomes ==
    {"ok", "connect failed", "starttls failed", "login failed", "send_message failed",
     "quit failed"}

\* lines 121-123: the same for smtplib.SMTP_SSL
SecondaryOutcomes ==
    {"ok", "connect failed", "login failed", "send_message failed", "quit failed"}

\* the addresses a message may go to
Recipients == {e \in EmailInputs : "@" \in Range(e)}

\* lines 125-133 and 135-144: a message is built and handed to _smtp_send, in
\* a process started with or without the two secrets
InitSmtp ==
    /\ InitGate
    /\ InitInputs
    /\ InitPdf
    /\ data = NoData
    /\ norm = <<>>
    /\ has_openai = FALSE
    /\ FirstRun(InitialAnswers)
    /\ pc = "run"
    /\ email_sender \in {"", "sender@gmail.com"}
    /\ email_app_password \in {"", "app-password"}
    /\ \E fn \in {"send_verification_code", "send_pdf"}, to \in Recipients :
          msg = Message(fn, to)
    /\ smtp_pc = "called"
    /\ attempts = <<>>

\* lines 113-114
CheckSecrets ==
    /\ smtp_pc = "called"
    /\ smtp_pc' = IF email_sender # "" /\ email_app_password # "" THEN "primary"
                  ELSE "raised"
    /\ UNCHANGED <<email_sender, email_app_password, msg, attempts>>
    /\ UNCHANGED <<scoreVars, gateVars, pc, reportVars, pdfVars>>

\* TryPrimary that lets the error of the first transport reach the caller
TryPrimaryOnly ==
    /\ smtp_pc = "primary"
    /\ \E outcome \in PrimaryOutcomes :
          /\ attempts' = Append(attempts, Attempt(587, "starttls", outcome))
          /\ smtp_pc' = IF outcome = "ok" THEN "returned" ELSE "raised"
    /\ UNCHANGED <<email_sender, email_app_password, msg>>
    /\ UNCHANGED <<scoreVars, gateVars, pc, reportVars, pdfVars>>

\* lines 115-120: SMTP on port 587 with STARTTLS; any exception leads to the
\* except branch
TryPrimary ==
    /\ smtp_pc = "primary"
    /\ \E outcome \in PrimaryOutcomes :
          /\ attempts' = Append(attempts, Attempt(587, "starttls", outcome))
          /\ smtp_pc' = IF outcome = "ok" THEN "returned" ELSE "secondary"
    /\ UNCHANGED <<email_sender, email_app_password, msg>>
    /\ UNCHANGED <<scoreVars, gateVars, pc, reportVars, pdfVars>>

\* lines 121-123: SMTP_SSL on port 465; an exception leaves _smtp_send
TrySecondary ==
    /\ smtp_pc = "secondary"
    /\ \E outcome \in SecondaryOutcomes :
          /\ attempts' = Append(attempts, Attempt(465, "ssl", outcome))
          /\ smtp_pc' = IF outcome = "ok" THEN "returned" ELSE "raised"
    /\ UNCHANGED <<email_sender, email_app_password, msg>>
    /\ UNCHANGED <<scoreVars, gateVars, pc, reportVars, pdfVars>>

NextSmtp ==
    \/ CheckSecrets
    \/ TryPrimary
    \/ TrySecondary

SpecSmtp == InitSmtp /\ [][NextSmtp]_vars

\* sender address and credential are both set
Configured == email_sender # "" /\ email_app_password # ""

\* C14: with sender and credential set, _smtp_send tries STARTTLS on port 587
\* first and SSL on port 465 only after that attempt failed, and raises only
\* after both failed; with one of them missing it raises without any attempt.
C14_PrimaryThenSecondary ==
    /\ Len(attempts) <= 2
    /\ Len(attempts) >= 1 => attempts[1].port = 587 /\ attempts[1].mode = "starttls"
    /\ Len(attempts) = 2 =>
          /\ attempts[1].outcome # "ok"
          /\ attempts[2].port = 465
          /\ attempts[2].mode = "ssl"
    /\ smtp_pc = "secondary" => Len(attempts) = 1
    /\ smtp_pc = "returned" => attempts # <<>> /\ attempts[Len(attempts)].outcome = "ok"
    /\ (smtp_pc = "raised" /\ Configured) =>
          /\ Len(attempts) = 2
          /\ attempts[1].outcome # "ok"
          /\ attempts[2].outcome # "ok"
    /\ ~Configured => attempts = <<>> /\ smtp_pc \in {"called", "raised"}

C14_Witness ==
    /\ smtp_pc = "raised"
    /\ Configured
    /\ Len(attempts) = 2
    /\ attempts[1].outcome = "login failed"
    /\ attempts[2].outcome = "connect failed"

(***************************************************************************)
(* _write_if_then applied to one item.  What goes to the page is the       *)
(* sequence of calls made on the pdf object.                               *)
(***************************************************************************)
\* the character U+2022, which to_latin1 replaces by "- "
BULLET == "<U+2022>"

\* lines 337-342 for the characters of the model
RECURSIVE to_latin1(_)
to_latin1(chars) ==
    IF chars = <<>> THEN <<>>
    ELSE (IF Head(chars) = BULLET THEN <<"-", " ">> ELSE <<Head(chars)>>)
         \o to_latin1(Tail(chars))

\* str.startswith
StartsWith(chars, prefix) ==
    Len(chars) >= Len(prefix) /\ SubSeq(chars, 1, Len(prefix)) = prefix

\* str.find: the 0-based index of the first occurrence of sub, or -1
Find(chars, sub) ==
    LET hits == {i \in 1..(Len(chars) - Len(sub) + 1) :
                     SubSeq(chars, i, i + Len(sub) - 1) = sub}
    IN  IF hits = {} THEN -1
        ELSE (CHOOSE i \in hits : \A j \in hits : i <= j) - 1

\* item.get(key, "")
GetOr(d, key) == IF HasKey(d, key) THEN Lookup(d, key) ELSE <<>>

IF_SP == <<"I", "f", " ">>

SP_THEN_SP == <<" ", "t", "h", "e", "n", " ">>

\* ItemSentence that joins the two texts of a dict with a comma
ItemSentenceComma(it) ==
    IF it.t = "dict"
    THEN IF_SP \o Strip(GetOr(it.d, "if")) \o <<",", " ">> \o Strip(GetOr(it.d, "then"))
    ELSE it.s

\* lines 419-424: the sentence s; str(item or "") is "" for None
ItemSentence(it) ==
    IF it.t = "dict"
    THEN IF_SP \o Strip(GetOr(it.d, "if")) \o SP_THEN_SP \o Strip(GetOr(it.d, "then"))
    ELSE it.s

\* pdf.multi_cell(0, 6, text) after pdf.set_font("Helvetica", style, 11)
MultiCell(style, chars) == [op |-> "multi_cell", style |-> style, text |-> to_latin1(chars)]

\* pdf.cell(5, 6, text, ln=0)
Cell(style, chars) == [op |-> "cell", style |-> style, text |-> to_latin1(chars)]

\* pdf.write(6, text)
Write(style, chars) == [op |-> "write", style |-> style, text |-> to_latin1(chars)]

\* pdf.ln(6)
Ln == [op |-> "ln", style |-> "", text |-> <<>>]

\* lines 417-442
_write_if_then(it) ==
    LET s == ItemSentence(it)
        low == Lower(s)
        idx == Find(low, SP_THEN_SP)
    IN  IF ~StartsWith(low, <<"i", "f", " ">>)
        THEN <<MultiCell("", <<BULLET, " ">> \o s)>>
        ELSE IF idx = -1
        THEN <<Cell("", <<BULLET, " ">>),
               Write("B", <<"I", "f">>),
               Write("", SubSeq(s, 3, Len(s))),
               Ln>>
        ELSE <<Cell("", <<BULLET, " ">>),
               Write("B", <<"I", "f">>),
               Write("", <<" ">> \o SubSeq(s, 4, idx) \o <<" ">>),
               Write("B", <<"T", "h", "e", "n">>),
               Write("", <<" ">> \o SubSeq(s, idx + 7, Len(s))),
               Ln>>

\* the texts X an item may carry as its condition
ConditionTexts ==
    { <<>>,
      <<"g", "o">>,
      <<" ", "g", "o">>,
      <<"T", "h", "e", "n", " ", "g", "o">>,
      <<"a", " ", "t", "h", "e", "n", " ", "b">> }

\* the texts Y an item may carry as its consequence
ConsequenceTexts ==
    { <<>>,
      <<"o", "k">>,
      <<"o", "k", " ">> }

\* the plain strings an item may be that are not of the form "If X then Y"
OtherSentences ==
    { <<>>,
      <<"R", "e", "s", "t">>,
      <<"I", "f", " ", "o", "n", "l", "y">>,
      <<"I", "F", " ", "g", "o", " ", "T", "H", "E", "N", " ", "o", "k">> }

InitIfThen ==
    /\ InitGate
    /\ InitInputs
    /\ InitMail
    /\ data = NoData
    /\ norm = <<>>
    /\ has_openai = FALSE
    /\ FirstRun(InitialAnswers)
    /\ pc = "input"
    /\ out = <<>>
    /\ chart_ok = FALSE
    /\ pdf = <<>>
    /\ \/ item = NoItem
       \/ \E t \in OtherSentences : item = IfThenStr(t)
       \/ \E x \in ConditionTexts, y \in ConsequenceTexts :
             \/ item = IfThenStr(IF_SP \o x \o SP_THEN_SP \o y)
             \/ item = IfThenDict(<< <<"if", x>>, <<"then", y>> >>)
             \/ item = IfThenDict(<< <<"then", y>>, <<"if", x>> >>)
             \/ item = IfThenDict(<< <<"if", x>> >>)
             \/ item = IfThenDict(<< <<"condition", x>>, <<"consequence", y>> >>)

\* line 449: _write_if_then(pdf, it)
ApplyWriteIfThen ==
    /\ pc = "input"
    /\ out' = _write_if_then(item)
    /\ pc' = "done"
    /\ UNCHANGED <<item, chart_ok, pdf>>
    /\ UNCHANGED <<scoreVars, gateVars, reportVars, mailVars>>

SpecIfThen == InitIfThen /\ [][ApplyWriteIfThen]_vars

\* the item is a pair: a dict with the two texts under "if" and "then"
IsPair == item.t = "dict" /\ Len(item.d) = 2 /\ HasKey(item.d, "if") /\ HasKey(item.d, "then")

\* the text X of a pair
PairX == Lookup(item.d, "if")

\* the text Y of a pair
PairY == Lookup(item.d, "then")

\* what was written for the plain string "If X then Y"
PlainRendering(x, y) == _write_if_then(IfThenStr(IF_SP \o x \o SP_THEN_SP \o y))

\* bold "If", plain X, bold "Then", plain Y, behind the bullet (which to_latin1
\* has turned into "- ")
EmphasizedPair(x, y) ==
    << [op |-> "cell", style |-> "", text |-> <<"-", " ", " ">>],
       [op |-> "write", style |-> "B", text |-> <<"I", "f">>],
       [op |-> "write", style |-> "", text |-> <<" ">> \o x \o <<" ">>],
       [op |-> "write", style |-> "B", text |-> <<"T", "h", "e", "n">>],
       [op |-> "write", style |-> "", text |-> <<" ">> \o y],
       [op |-> "ln", style |-> "", text |-> <<>>] >>

\* C15 as stated: for all texts X and Y the pair is written exactly as the
\* plain string "If X then Y" is.
C15_PairRendersAsPlain ==
    (pc = "done" /\ IsPair) => out = PlainRendering(PairX, PairY)

\* C15 amended: for all texts X and Y without leading or trailing blanks the
\* pair is written exactly as the plain string "If X then Y" is; and when
\* " X " does not hold " then " in any letter case, both are written as bold
\* "If", plain " X ", bold "Then", plain " Y".
C15_StrippedPairRendersAsPlain ==
    (pc = "done" /\ IsPair /\ Strip(PairX) = PairX /\ Strip(PairY) = PairY) =>
        /\ out = PlainRendering(PairX, PairY)
        /\ Find(Lower(<<" ">> \o PairX \o <<" ">>), SP_THEN_SP) = -1 =>
              out = EmphasizedPair(PairX, PairY)

C15_Witness ==
    /\ pc = "done"
    /\ IsPair
    /\ PairX = <<"g", "o">>
    /\ PairY = <<"o", "k">>
    /\ out = EmphasizedPair(<<"g", "o">>, <<"o", "k">>)

(***************************************************************************)
(* build_pdf.  What goes to the document is the sequence of its blocks:    *)
(* each with its kind, its title and a number n (the items of a list, the  *)
(* score of a score line).  Dashes in titles are written "-".              *)
(***************************************************************************)
Block(kind, title, n) == [kind |-> kind, title |-> title, n |-> n]

\* bool(x) of a value, as in "if data.get(...)" and "if not items"
TruthyValue(val) ==
    CASE val.t = "none" -> FALSE
      [] val.t = "str" -> val.x[1].s # ""
      [] val.t \in {"int", "float"} -> val.x[1].n # 0
      [] OTHER -> val.x # <<>>

\* lines 405-408: sec writes its title and body whatever the body is
sec(title, body) == <<Block("sec", title, 0)>>

\* lines 510-511 and 527-528: sec under "if data.get(...)"
sec_if(title, body) == IF TruthyValue(body) THEN sec(title, body) ELSE <<>>

\* lines 410-415, 444-471: the four list blocks write nothing for an empty list
list_block(title, items) ==
    IF ~TruthyValue(items) THEN <<>>
    ELSE <<Block("list", title, IF items.t \in {"list", "tuple"} THEN Len(items.x) ELSE 1)>>

\* lines 498-500
scores_at_a_glance(sc, tot) ==
    <<Block("heading", "Scores at a glance", 0), Block("score", "Overall readiness", tot)>>
    \o [i \in 1..Len(sc) |-> Block("score", LABELS(sc[i][1]), sc[i][2])]

\* lines 502-508: the chart, unless drawing it raised or left no file
scores_chart(chart) == IF chart THEN <<Block("image", "Theme Snapshot", 0)>> ELSE <<>>

\* lines 484-533
build_pdf(fname, sc, tot, d, chart) ==
    LET nd == normalize_report(d)
        f(k) == Lookup(nd, k)
    IN  <<Block("greeting", "Hi " \o OrElse(fname, "there") \o ",", 0),
          Block("greeting", "Here's a calm snapshot", 0)>>
        \o sec("Archetype", f("archetype"))
        \o sec("Core Need", f("core_need"))
        \o sec("Signature Metaphor", f("signature_metaphor"))
        \o sec("Signature Sentence", f("signature_sentence"))
        \o scores_at_a_glance(sc, tot)
        \o scores_chart(chart)
        \o sec_if("From your words", f("from_your_words"))
        \o sec_if("What this really says about you", f("what_this_says"))
        \o sec("Insights", f("insights"))
        \o sec("Why Now", f("why_now"))
        \o sec("Future Snapshot (1 month)", f("future_snapshot"))
        \o list_block("Signature Strengths", f("signature_strengths"))
        \o list_block("Energizers", f("energizers"))
        \o list_block("Drainers", f("drainers"))
        \o list_block("Hidden Tensions", f("hidden_tensions"))
        \o sec("Watch-out (gentle blind spot)", f("watchout"))
        \o list_block("3 Next-step Actions (7 days)", f("actions"))
        \o list_block("Implementation Intentions (If-Then)", f("if_then"))
        \o list_block("1-Week Gentle Plan", f("one_week_plan"))
        \o sec_if("Balancing Opportunity", f("balancing_opportunity"))
        \o list_block("Keep This In View", f("keep_in_view"))
        \o list_block("Signature Week - At a glance", f("signature_week"))
        \o list_block("Tiny Progress Tracker", f("tiny_progress_tracker"))

\* a verified session's report: the fallback content, something that is no
\* dict, or a record the service returned with every field of the right type
InitBuildPdf ==
    /\ InitVerifiedGate
    /\ InitMail
    /\ has_openai \in BOOLEAN
    /\ FirstRun(InitialAnswers)
    /\ first_name \in FirstNames
    /\ user_words = ""
    /\ resp = NoResponse
    /\ norm = <<>>
    /\ pc = "input"
    /\ item = NoItem
    /\ out = <<>>
    /\ pdf = <<>>
    /\ chart_ok \in BOOLEAN
    /\ \/ data = DictData(rule_based_full_report(first_name, compute_scores(InitialAnswers),
                                                  SLIDER_DEFAULT, "").content)
       \/ data = NonDictData
       \/ \E base \in 1..2 : \E varied \in SUBSET (1..Len(FIELDS)) :
             /\ Cardinality(varied) <= MaxVaried
             /\ data = DictData(WellFormedRecord(base, varied, FALSE))

\* line 614: pdf_bytes = build_pdf(first_name, scores, total, ai_data)
ApplyBuildPdf ==
    /\ pc = "input"
    /\ norm' = normalize_report(data)
    /\ pdf' = build_pdf(first_name, scores, total, data, chart_ok)
    /\ pc' = "done"
    /\ UNCHANGED <<item, out, chart_ok>>
    /\ UNCHANGED <<scoreVars, gateVars, inputVars, data, mailVars>>

SpecBuildPdf == InitBuildPdf /\ [][ApplyBuildPdf]_vars

\* the positions of the blocks of the given kinds
BlocksOf(kinds) == {i \in 1..Len(pdf) : pdf[i].kind \in kinds}

\* the position of the block with the given title, 0 when there is none
TitleAt(title) ==
    IF \E i \in 1..Len(pdf) : pdf[i].title = title
    THEN CHOOSE i \in 1..Len(pdf) : pdf[i].title = title
    ELSE 0

\* every position in a comes before every position in b
AllBefore(a, b) == \A i \in a, j \in b : i < j

\* C16: build_pdf writes the greeting, then "Scores at a glance" with the
\* overall score and every theme score, then the chart, and only then the
\* narrative sections, which begin with archetype, core need, signature
\* metaphor and signature sentence.
C16_ScoresBeforeNarrative ==
    pc = "done" =>
        /\ AllBefore(BlocksOf({"greeting"}), BlocksOf({"heading", "score"}))
        /\ AllBefore(BlocksOf({"heading", "score"}), BlocksOf({"image"}))
        /\ AllBefore(BlocksOf({"heading", "score", "image"}), BlocksOf({"sec", "list"}))
        /\ Cardinality(BlocksOf({"score"})) = 1 + Len(scores)
        /\ LET first == TitleAt("Archetype")
           IN  /\ first > 0
               /\ \A i \in BlocksOf({"sec", "list"}) : first <= i
               /\ pdf[first + 1].title = "Core Need"
               /\ pdf[first + 2].title = "Signature Metaphor"
               /\ pdf[first + 3].title = "Signature Sentence"

(***************************************************************************)
(* Further claims about the gate (under Spec) and about the fallback       *)
(* report (under SpecFallback).                                            *)
(***************************************************************************)
\* C17: the verified flag is set only in a session in which a code has been
\* issued, that is after a send-code run with a valid email.
C17_VerifiedNeedsIssuedCode == verified => CodeIssued

\* C18: in the fallback report no theme is named both among the strengths
\* (top three) and among the areas to lift (bottom two).
C18_StrengthsAndLiftsDisjoint ==
    (pc = "done" /\ ~fallback.raised) =>
        Range(fallback.top_names) \cap Range(fallback.low_names) = {}

====
